---- MODULE Spec2Model ----
(***************************************************************************)
(* Model of storage::segment_offset_index                                  *)
(* (src/v/storage/segment_offset_index.cc): the sparse offset index of a   *)
(* log segment.  The in-memory members (_positions, _acc,                  *)
(* _last_seen_offset, _needs_persistence), the backing file _out and the   *)
(* continuation chains of the asynchronous operations are the state; every *)
(* member function is an action, and every asynchronous file operation it  *)
(* chains is a step that succeeds or fails.                                *)
(*                                                                         *)
(* Relative offsets and byte positions are uint32_t in the code.  The      *)
(* inputs of the model stay far below 2^32 (a segment is smaller than      *)
(* 4GB, line 42), so the casts of lines 33, 44, 45, 71 and 104 never       *)
(* truncate and are modelled as plain subtraction.                         *)
(***************************************************************************)
EXTENDS Integers, Sequences, FiniteSets, TLC

\* ------------------------------------------------------------------ bounds
\* greatest relative offset a call may name
MaxRel == 2
\* greatest record payload size a track call may name
MaxSize == 2
\* track is not called when it would give the index more entries than this
MaxEntries == 2

\* constructor arguments the model tries (line 18)
Bases == {100}
Steps == {0, 2, 3}
\* byte positions a track call may name (the index files of InitLists hold
\* other positions)
Positions == {512}

VARIABLES
    base,               \* _base
    step,               \* _step
    positions,          \* _positions: sequence of [first, second]
    acc,                \* _acc
    last_seen_offset,   \* _last_seen_offset
    needs_persistence,  \* _needs_persistence
    file,               \* contents of the backing file _out: sequence of bytes
    close_calls,        \* number of times _out.close() was issued
    phase,              \* "new", "open", "closing", "closed", "aborted"
    tasks,              \* outstanding asynchronous operations
    failed,             \* history: some flush of the index has failed
    increasing,         \* history: every track call so far named a greater
                        \* offset than the one before it (kept by SpecMono)
    seen_max,           \* history: the greatest of the offset of the last
                        \* truncate and of the offsets tracked since by calls
                        \* that were not ignored (kept by SpecSeen)
    raced,              \* history: a truncate ran while a flush was
                        \* outstanding (kept by SpecConc)
    last                \* history: the call or step that led to this state

vars == <<base, step, positions, acc, last_seen_offset, needs_persistence,
          file, close_calls, phase, tasks, failed, increasing, seen_max,
          raced, last>>

index == <<positions, acc, last_seen_offset, needs_persistence>>

\* ----------------------------------------------------------------- helpers
Entry(r, p) == [first |-> r, second |-> p]

Nullopt == <<>>

Back(seq) == seq[Len(seq)]

RemoveAt(seq, t) == [k \in 1..(Len(seq) - 1) |-> IF k < t THEN seq[k] ELSE seq[k + 1]]

\* lines 52-54: the comparator std::lower_bound uses
base_comparator(p, needle) == p.first < needle

\* std::lower_bound (lines 72-73, 105-106) as the library computes it: a
\* binary search over [first, first + len); the result is an index in
\* 1..Len(seq)+1, Len(seq)+1 standing for end().
RECURSIVE lower_bound_from(_, _, _, _)
lower_bound_from(seq, first, len, needle) ==
    IF len <= 0 THEN first
    ELSE LET half == len \div 2
             mid == first + half
         IN IF base_comparator(seq[mid], needle)
            THEN lower_bound_from(seq, mid + 1, len - half - 1, needle)
            ELSE lower_bound_from(seq, first, half, needle)

lower_bound_it(seq, needle) == lower_bound_from(seq, 1, Len(seq), needle)

\* mutant: the second back-off of lines 80-82 is missing
CanStepBack_never(it) == FALSE

\* line 80: whether the iterator may step back
CanStepBack(it) == it - 1 > 0

\* lines 61-87
lower_bound_pair(seq, b, o) ==
    IF seq = <<>> THEN Nullopt
    ELSE LET i == o - b
             it0 == lower_bound_it(seq, i)
             it1 == IF it0 = Len(seq) + 1 THEN it0 - 1 ELSE it0
         IN IF seq[it1].first <= i
            THEN <<b + seq[it1].first, seq[it1].second>>
            ELSE LET it2 == IF CanStepBack(it1) THEN it1 - 1 ELSE it1
                 IN IF seq[it2].first <= i
                    THEN <<b + seq[it2].first, seq[it2].second>>
                    ELSE Nullopt

\* ----------------------------------------------------- the binary format
\* a uint32_t as four bytes, least significant first
U32Bytes(x) == [k \in 1..4 |-> (x \div (256 ^ (k - 1))) % 256]

U32Value(b) == b[1] + 256 * b[2] + 65536 * b[3] + 16777216 * b[4]

RECURSIVE offset_index_to_buf(_)
offset_index_to_buf(seq) ==
    IF seq = <<>> THEN <<>>
    ELSE U32Bytes(seq[1].first) \o U32Bytes(seq[1].second)
         \o offset_index_to_buf(Tail(seq))

offset_index_from_buf(buf) ==
    [k \in 1..(Len(buf) \div 8) |->
        Entry(U32Value(SubSeq(buf, 8 * k - 7, 8 * k - 4)),
              U32Value(SubSeq(buf, 8 * k - 3, 8 * k)))]

\* mutant: a short write, only the first record reaches the file
WriteAtZero_short(f, buf) ==
    LET b == SubSeq(buf, 1, IF Len(buf) > 8 THEN 8 ELSE Len(buf))
    IN IF Len(b) >= Len(f) THEN b ELSE b \o SubSeq(f, Len(b) + 1, Len(f))

\* a write of buf at offset 0 of a file holding f
WriteAtZero(f, buf) ==
    IF Len(buf) >= Len(f) THEN buf ELSE buf \o SubSeq(f, Len(buf) + 1, Len(f))

\* ------------------------------------------------------------ history
Ev(op, o, pos, size, res, fin, ok) ==
    [op |-> op, o |-> o, pos |-> pos, size |-> size, res |-> res,
     fin |-> fin, ok |-> ok]

Call(op, o, pos, size) == Ev(op, o, pos, size, Nullopt, "", TRUE)
Step(op, fin, ok) == Ev(op, 0, 0, 0, Nullopt, fin, ok)

\* an outstanding operation: its kind, the file operation it waits for,
\* the buffer it encoded, and as history whether the index was dirty and
\* what _positions held when the operation was called
Task(kind, pc, dirty0) ==
    [kind |-> kind, pc |-> pc, buf |-> <<>>, dirty0 |-> dirty0,
     snap |-> positions']

\* stands for a default-constructed model::offset, the value of
\* _last_seen_offset before any call sets it
NoOffset == 0 - 1

\* --------------------------------------------------------------- Init
\* index files an earlier run of the index left behind
InitLists == {<<>>, <<Entry(0, 0), Entry(2, 512)>>}

\* lines 17-22: the constructor; the segment then loads the index
Init ==
    /\ base \in Bases
    /\ step \in Steps
    /\ positions = <<>>
    /\ acc = 0
    /\ last_seen_offset = NoOffset
    /\ needs_persistence = FALSE
    /\ file \in {offset_index_to_buf(l) : l \in InitLists}
    /\ close_calls = 0
    /\ phase = "new"
    /\ tasks = <<>>
    /\ failed = FALSE
    /\ increasing = TRUE
    /\ seen_max = NoOffset
    /\ raced = FALSE
    /\ last = Call("init", 0, 0, 0)

\* ------------------------------------------------------- call arguments
Offsets == (base - 1)..(base + MaxRel)
Sizes == 0..MaxSize

\* the owner calls the index only when no operation is outstanding (single
\* owner, section 5 of the design)
Exclusive == tasks = <<>>

\* mutant: the vassert rejects the base offset itself
OffsetOk_strict(o) == o > base

\* lines 26-30, 63-67, 98-102: the vassert of the three offset operations
OffsetOk(o) == o >= base

\* a vassert that fails aborts the process: nothing runs afterwards
Abort(ev) ==
    /\ phase' = "aborted"
    /\ last' = ev
    /\ UNCHANGED <<base, step, positions, acc, last_seen_offset,
                   needs_persistence, file, close_calls, tasks, failed>>

\* ---------------------------------------------------------- maybe_track
\* mutant: no offset is taken for an earlier one
IsEarlier_never(back_first, i) == FALSE

\* mutant: an offset one below the last indexed one is let through
IsEarlier_off(back_first, i) == back_first > i + 1

\* line 34: an earlier offset than the last indexed one
IsEarlier(back_first, i) == back_first > i

\* mutant: the threshold itself does not count
ReachedStep_strict(a, s) == a > s

\* line 40
ReachedStep(a, s) == a >= s

\* mutant: the offset stored is the one seen before this call
TrackedEntry_stale(o, pos) ==
    Entry((IF last_seen_offset = NoOffset THEN o ELSE last_seen_offset) - base, pos)

\* lines 43-45: the entry emplace_back stores
TrackedEntry(o, pos) == Entry(o - base, pos)

\* mutant: the member keeps the greatest offset seen, not the last one
TrackSeen_max(prev, o) == IF prev > o THEN prev ELSE o

\* line 38: _last_seen_offset after a call that was not ignored
TrackSeen(prev, o) == o

\* line 46: _needs_persistence after emplace_back
TrackDirty(np) == TRUE

\* lines 24-48
maybe_track(o, pos, data_size) ==
    /\ phase = "open"
    /\ IF ~OffsetOk(o)
       THEN Abort(Call("track", o, pos, data_size))
       ELSE /\ last' = Call("track", o, pos, data_size)
            /\ UNCHANGED <<base, step, file, close_calls, phase, tasks, failed>>
            /\ IF positions /= <<>> /\ IsEarlier(Back(positions).first, o - base)
               THEN UNCHANGED index
               ELSE /\ last_seen_offset' = TrackSeen(last_seen_offset, o)
                    /\ IF ReachedStep(acc + data_size, step)
                       THEN /\ acc' = 0
                            /\ positions' = Append(positions, TrackedEntry(o, pos))
                            /\ needs_persistence' = TrackDirty(needs_persistence)
                       ELSE /\ acc' = acc + data_size
                            /\ UNCHANGED <<positions, needs_persistence>>
    \* the model stops short of a call that would grow the index past MaxEntries
    /\ Len(positions') <= MaxEntries

\* ------------------------------------------------------ lower_bound_pair
\* lines 61-87: the call itself; it changes no member
Lookup(o) ==
    /\ phase = "open"
    /\ IF ~OffsetOk(o)
       THEN Abort(Call("lookup", o, 0, 0))
       ELSE /\ last' = Ev("lookup", o, 0, 0, lower_bound_pair(positions, base, o), "", TRUE)
            /\ UNCHANGED <<base, step, positions, acc, last_seen_offset,
                           needs_persistence, file, close_calls, phase, tasks,
                           failed>>

\* ---------------------------------------------------------------- flush
\* mutant: flush rewrites the file whether or not the index is dirty
MustPersist_always(np) == TRUE

\* mutant: flush takes every index for clean
MustPersist_never(np) == FALSE

\* line 129: flush has work to do
MustPersist(np) == np

\* lines 128-133, the synchronous part of flush() run on behalf of `kind`
\* with _needs_persistence = np: a ready future when clean, else the flag
\* is cleared and _out.truncate(0) is issued
FlushTasks(kind, np) ==
    IF MustPersist(np)
    THEN Append(tasks, Task(kind, "ftruncate", np))
    ELSE tasks

\* mutant: line 132 is missing, the flag stays set while the file is written
FlushClears_late(np) == np

\* line 132
FlushClears(np) == FALSE

\* mutant: the search is an upper bound, the entry at the target stays
TruncateKeep_upper(seq, i) == SelectSeq(seq, LAMBDA e : e.first <= i)

\* lines 105-110: the entries truncate keeps
TruncateKeep(seq, i) == SubSeq(seq, 1, lower_bound_it(seq, i) - 1)

\* mutant: line 108 is outside the if, every truncate marks the index dirty
TruncateDirty_always(np, seq, kept) == TRUE

\* lines 107-110: _needs_persistence after the erase
TruncateDirty(np, seq, kept) == np \/ kept /= seq

\* lines 97-112
Truncate(o) ==
    /\ phase = "open"
    /\ IF ~OffsetOk(o)
       THEN Abort(Call("truncate", o, 0, 0))
       ELSE LET kept == TruncateKeep(positions, o - base)
                np == TruncateDirty(needs_persistence, positions, kept)
            IN /\ last_seen_offset' = o
               /\ positions' = kept
               /\ needs_persistence' = IF MustPersist(np) THEN FlushClears(np) ELSE np
               /\ tasks' = FlushTasks("truncate", np)
               /\ last' = Ev("truncate", o, 0, 0, Nullopt,
                             IF tasks' = tasks THEN "truncate" ELSE "", TRUE)
               /\ UNCHANGED <<base, step, acc, file, close_calls, phase, failed>>

\* lines 128-142, the call
Flush ==
    /\ phase = "open"
    /\ UNCHANGED <<base, step, positions, acc, last_seen_offset, file,
                   close_calls, phase, failed>>
    /\ needs_persistence' = IF MustPersist(needs_persistence)
                            THEN FlushClears(needs_persistence)
                            ELSE needs_persistence
    /\ tasks' = FlushTasks("flush", needs_persistence)
    /\ last' = Ev("flush", 0, 0, 0, Nullopt,
                  IF tasks' = tasks THEN "flush" ELSE "", TRUE)

\* lines 143-145, the call: flush(), and on a ready future _out.close() at once
Close ==
    /\ phase = "open"
    /\ UNCHANGED <<base, step, positions, acc, last_seen_offset, file, failed>>
    /\ needs_persistence' = IF MustPersist(needs_persistence)
                            THEN FlushClears(needs_persistence)
                            ELSE needs_persistence
    /\ IF MustPersist(needs_persistence)
       THEN /\ tasks' = FlushTasks("close", needs_persistence)
            /\ UNCHANGED close_calls
       ELSE /\ tasks' = Append(tasks, Task("close", "fclose", needs_persistence))
            /\ close_calls' = close_calls + 1
    /\ phase' = "closing"
    /\ last' = Call("close", 0, 0, 0)

\* lines 114-118, the call: _out.size() is issued
Load ==
    /\ phase \in {"new", "open"}
    /\ UNCHANGED <<base, step, positions, acc, last_seen_offset,
                   needs_persistence, file, close_calls, phase, failed>>
    /\ tasks' = Append(tasks, Task("load", "size", needs_persistence))
    /\ last' = Call("load", 0, 0, 0)

\* ------------------------------------------- the asynchronous file steps
\* the future of the operation `kind` resolves: its task is gone
Finish(t, kind, ok) ==
    /\ tasks' = RemoveAt(tasks, t)
    /\ phase' = IF kind = "close" THEN "closed"
                ELSE IF kind = "load" /\ phase = "new" /\ ok THEN "open"
                ELSE phase
    /\ failed' = (failed \/ (~ok /\ kind /= "load"))

\* a step of task t that is not its last
Advance(t, pc, buf) ==
    /\ tasks' = [tasks EXCEPT ![t].pc = pc, ![t].buf = buf]
    /\ UNCHANGED <<phase, failed>>

\* mutant: the stream is closed right after the write, line 138 is missing
NextStep_noflush(pc) ==
    CASE pc = "ftruncate" -> "write"
      [] pc = "write" -> "sclose"
      [] pc = "sflush" -> "sclose"

\* lines 133-139: the file operation the chain of flush issues when the
\* operation pc has resolved
NextStep(pc) ==
    CASE pc = "ftruncate" -> "write"
      [] pc = "write" -> "sflush"
      [] pc = "sflush" -> "sclose"

\* mutant: the file is not cut before the write
TruncatedFile_keep(f) == f

\* line 133: the file after _out.truncate(0)
TruncatedFile(f) == <<>>

\* line 133: _out.truncate(0) resolves; on success the continuation of
\* lines 134-137 encodes _positions and issues the write
FileTruncateDone(t, ok) ==
    /\ tasks[t].pc = "ftruncate"
    /\ IF ok
       THEN /\ file' = TruncatedFile(file)
            /\ Advance(t, NextStep("ftruncate"), offset_index_to_buf(positions))
            /\ last' = Step("ftruncate", "", TRUE)
       ELSE /\ Finish(t, tasks[t].kind, FALSE)
            /\ last' = Step("ftruncate", tasks[t].kind, FALSE)
            /\ UNCHANGED file
    /\ UNCHANGED <<base, step, index, close_calls>>

\* line 137: out->write(b.get(), b.size()) resolves
StreamWriteDone(t, ok) ==
    /\ tasks[t].pc = "write"
    /\ IF ok
       THEN /\ file' = WriteAtZero(file, tasks[t].buf)
            /\ Advance(t, NextStep("write"), tasks[t].buf)
            /\ last' = Step("write", "", TRUE)
       ELSE /\ Finish(t, tasks[t].kind, FALSE)
            /\ last' = Step("write", tasks[t].kind, FALSE)
            /\ UNCHANGED file
    /\ UNCHANGED <<base, step, index, close_calls>>

\* line 138: out->flush() resolves
StreamFlushDone(t, ok) ==
    /\ tasks[t].pc = "sflush"
    /\ IF ok
       THEN /\ Advance(t, NextStep("sflush"), tasks[t].buf)
            /\ last' = Step("sflush", "", TRUE)
       ELSE /\ Finish(t, tasks[t].kind, FALSE)
            /\ last' = Step("sflush", tasks[t].kind, FALSE)
    /\ UNCHANGED <<base, step, index, file, close_calls>>

\* line 144: what close() chains to a flush that succeeded
ClosesFile(kind) == kind = "close"

\* mutant: the flag is cleared when the flush is done, not when it starts
FlushDoneDirty_clear(np, ok) == np /\ ~ok

\* lines 133-141: _needs_persistence when the chain of flush has resolved;
\* no continuation assigns it
FlushDoneDirty(np, ok) == np

\* lines 139-141: out->close() resolves and with it the future of flush();
\* line 144: close() then issues _out.close()
StreamCloseDone(t, ok) ==
    /\ tasks[t].pc = "sclose"
    /\ IF ok /\ ClosesFile(tasks[t].kind)
       THEN /\ Advance(t, "fclose", tasks[t].buf)
            /\ close_calls' = close_calls + 1
            /\ last' = Step("sclose", "", TRUE)
       ELSE /\ Finish(t, tasks[t].kind, ok)
            /\ last' = Step("sclose", tasks[t].kind, ok)
            /\ UNCHANGED close_calls
    /\ needs_persistence' = FlushDoneDirty(needs_persistence, ok)
    /\ UNCHANGED <<base, step, positions, acc, last_seen_offset, file>>

\* line 144: _out.close() resolves
FileCloseDone(t, ok) ==
    /\ tasks[t].pc = "fclose"
    /\ Finish(t, tasks[t].kind, ok)
    /\ last' = Step("fclose", tasks[t].kind, ok)
    /\ UNCHANGED <<base, step, index, file, close_calls>>

\* lines 115-118: _out.size() resolves and the read is issued
SizeDone(t, ok) ==
    /\ tasks[t].pc = "size"
    /\ IF ok
       THEN /\ Advance(t, "read", tasks[t].buf)
            /\ last' = Step("size", "", TRUE)
       ELSE /\ Finish(t, tasks[t].kind, FALSE)
            /\ last' = Step("size", tasks[t].kind, FALSE)
    /\ UNCHANGED <<base, step, index, file, close_calls>>

\* what materialize_index returns, as the result of the history record
LoadResult(b) == IF b THEN <<1>> ELSE <<0>>

\* mutant: lines 120-122 are missing, an empty file decodes to no entries
LoadedPositions_always(seq, buf) == offset_index_from_buf(buf)

\* lines 120-124: _positions after the read returned buf
LoadedPositions(seq, buf) ==
    IF buf = <<>> THEN seq ELSE offset_index_from_buf(buf)

\* lines 119-125: the read resolves with the whole file
ReadDone(t, ok) ==
    /\ tasks[t].pc = "read"
    /\ Finish(t, tasks[t].kind, ok)
    /\ IF ok
       THEN /\ positions' = LoadedPositions(positions, file)
            /\ last' = Ev("read", 0, 0, 0, LoadResult(file /= <<>>), "load", TRUE)
       ELSE /\ UNCHANGED positions
            /\ last' = Step("read", "load", FALSE)
    /\ UNCHANGED <<base, step, acc, last_seen_offset, needs_persistence,
                   file, close_calls>>

\* ----------------------------------------------------------------- Next
\* the index under its single owner: any call when nothing is outstanding,
\* any step of the outstanding operation
Next ==
    \/ /\ Exclusive
       /\ \E o \in Offsets, pos \in Positions, sz \in Sizes : maybe_track(o, pos, sz)
       /\ UNCHANGED <<increasing, seen_max, raced>>
    \/ Exclusive /\ (\E o \in Offsets : Lookup(o)) /\ UNCHANGED <<increasing, seen_max, raced>>
    \/ Exclusive /\ (\E o \in Offsets : Truncate(o)) /\ UNCHANGED <<increasing, seen_max, raced>>
    \/ Exclusive /\ Flush /\ UNCHANGED <<increasing, seen_max, raced>>
    \/ Exclusive /\ Close /\ UNCHANGED <<increasing, seen_max, raced>>
    \/ Exclusive /\ Load /\ UNCHANGED <<increasing, seen_max, raced>>
    \/ (\E t \in DOMAIN tasks, ok \in BOOLEAN : FileTruncateDone(t, ok)) /\ UNCHANGED <<increasing, seen_max, raced>>
    \/ (\E t \in DOMAIN tasks, ok \in BOOLEAN : StreamWriteDone(t, ok)) /\ UNCHANGED <<increasing, seen_max, raced>>
    \/ (\E t \in DOMAIN tasks, ok \in BOOLEAN : StreamFlushDone(t, ok)) /\ UNCHANGED <<increasing, seen_max, raced>>
    \/ (\E t \in DOMAIN tasks, ok \in BOOLEAN : StreamCloseDone(t, ok)) /\ UNCHANGED <<increasing, seen_max, raced>>
    \/ (\E t \in DOMAIN tasks, ok \in BOOLEAN : FileCloseDone(t, ok)) /\ UNCHANGED <<increasing, seen_max, raced>>
    \/ (\E t \in DOMAIN tasks, ok \in BOOLEAN : SizeDone(t, ok)) /\ UNCHANGED <<increasing, seen_max, raced>>
    \/ (\E t \in DOMAIN tasks, ok \in BOOLEAN : ReadDone(t, ok)) /\ UNCHANGED <<increasing, seen_max, raced>>

Spec == Init /\ [][Next]_vars

\* the index of a new segment that is only appended to: it is created over
\* an empty file, and track is called with offsets that never decrease.  No
\* call is dropped here, so _last_seen_offset is the offset of the track
\* call before.
InitMono == Init /\ file = <<>>

NextMono ==
    \/ Exclusive /\ phase = "new" /\ Load /\ UNCHANGED <<increasing, seen_max, raced>>
    \/ (\E t \in DOMAIN tasks, ok \in BOOLEAN : SizeDone(t, ok)) /\ UNCHANGED <<increasing, seen_max, raced>>
    \/ (\E t \in DOMAIN tasks, ok \in BOOLEAN : ReadDone(t, ok)) /\ UNCHANGED <<increasing, seen_max, raced>>
    \/ /\ Exclusive
       /\ \E o \in Offsets, pos \in Positions, sz \in Sizes :
            /\ OffsetOk(o)
            /\ o >= last_seen_offset
            /\ maybe_track(o, pos, sz)
            /\ increasing' = (increasing /\ o > last_seen_offset)
       /\ UNCHANGED <<seen_max, raced>>

SpecMono == InitMono /\ [][NextMono]_vars

\* the index under its owner's track, lookup and truncate calls with offsets
\* the vassert accepts, the truncates with the flush they start; seen_max
\* follows the greatest offset named since the last truncate by a call
\* that was not ignored
Greater(a, b) == IF a > b THEN a ELSE b

NextSeen ==
    \/ Exclusive /\ phase = "new" /\ Load /\ UNCHANGED <<increasing, seen_max, raced>>
    \/ (\E t \in DOMAIN tasks, ok \in BOOLEAN : SizeDone(t, ok)) /\ UNCHANGED <<increasing, seen_max, raced>>
    \/ (\E t \in DOMAIN tasks, ok \in BOOLEAN : ReadDone(t, ok)) /\ UNCHANGED <<increasing, seen_max, raced>>
    \/ /\ Exclusive
       /\ \E o \in Offsets, pos \in Positions, sz \in Sizes :
            /\ OffsetOk(o)
            /\ maybe_track(o, pos, sz)
            /\ seen_max' = IF positions /= <<>> /\ o - base < Back(positions).first
                           THEN seen_max
                           ELSE Greater(seen_max, o)
       /\ UNCHANGED <<increasing, raced>>
    \/ /\ Exclusive
       /\ \E o \in Offsets : OffsetOk(o) /\ Lookup(o)
       /\ UNCHANGED <<increasing, seen_max, raced>>
    \/ /\ Exclusive
       /\ \E o \in Offsets : OffsetOk(o) /\ Truncate(o) /\ seen_max' = o
       /\ UNCHANGED <<increasing, raced>>
    \/ (\E t \in DOMAIN tasks, ok \in BOOLEAN : FileTruncateDone(t, ok)) /\ UNCHANGED <<increasing, seen_max, raced>>
    \/ (\E t \in DOMAIN tasks, ok \in BOOLEAN : StreamWriteDone(t, ok)) /\ UNCHANGED <<increasing, seen_max, raced>>
    \/ (\E t \in DOMAIN tasks, ok \in BOOLEAN : StreamFlushDone(t, ok)) /\ UNCHANGED <<increasing, seen_max, raced>>
    \/ (\E t \in DOMAIN tasks, ok \in BOOLEAN : StreamCloseDone(t, ok)) /\ UNCHANGED <<increasing, seen_max, raced>>

SpecSeen == Init /\ [][NextSeen]_vars

\* the index under an owner that breaks the exclusion rule: track and
\* truncate also run while a flush is outstanding.  File operations of
\* different flushes complete in any order; none fails here.  The index is
\* new over an empty file and samples every batch (step 0), so every track
\* call that is not ignored changes the entries.  The owner is followed up
\* to the first truncate it runs while a flush is outstanding, and from
\* there through the file operations of the two flushes.
InitConc == Init /\ file = <<>> /\ step = 0

FlushOutstanding ==
    /\ tasks /= <<>>
    /\ \A t \in DOMAIN tasks : tasks[t].kind \in {"flush", "truncate"}

NextConc ==
    \/ Exclusive /\ phase = "new" /\ Load /\ UNCHANGED <<increasing, seen_max, raced>>
    \/ (\E t \in DOMAIN tasks : SizeDone(t, TRUE)) /\ UNCHANGED <<increasing, seen_max, raced>>
    \/ (\E t \in DOMAIN tasks : ReadDone(t, TRUE)) /\ UNCHANGED <<increasing, seen_max, raced>>
    \/ /\ ~raced
       /\ Exclusive \/ FlushOutstanding
       /\ \E o \in Offsets, pos \in Positions :
            OffsetOk(o) /\ maybe_track(o, pos, 0)
       /\ UNCHANGED <<increasing, seen_max, raced>>
    \/ /\ ~raced
       /\ Exclusive
       /\ \E o \in Offsets : OffsetOk(o) /\ Truncate(o)
       /\ UNCHANGED <<increasing, seen_max, raced>>
    \/ /\ ~raced
       /\ FlushOutstanding
       /\ \E o \in Offsets : OffsetOk(o) /\ Truncate(o)
       /\ raced' = TRUE
       /\ UNCHANGED <<increasing, seen_max>>
    \/ ~raced /\ Exclusive /\ Flush /\ UNCHANGED <<increasing, seen_max, raced>>
    \/ (\E t \in DOMAIN tasks : FileTruncateDone(t, TRUE)) /\ UNCHANGED <<increasing, seen_max, raced>>
    \/ (\E t \in DOMAIN tasks : StreamWriteDone(t, TRUE)) /\ UNCHANGED <<increasing, seen_max, raced>>
    \/ (\E t \in DOMAIN tasks : StreamFlushDone(t, TRUE)) /\ UNCHANGED <<increasing, seen_max, raced>>
    \/ (\E t \in DOMAIN tasks : StreamCloseDone(t, TRUE)) /\ UNCHANGED <<increasing, seen_max, raced>>

SpecConc == InitConc /\ [][NextConc]_vars

\* =================================================================
\* Properties
\* =================================================================
Sorted(seq) == \A k \in 1..(Len(seq) - 1) : seq[k].first <= seq[k + 1].first

NoDuplicates(seq) ==
    \A j, k \in DOMAIN seq : j /= k => seq[j].first /= seq[k].first

\* the call that led to this state was dropped by line 34-35
Dropped(ev, seq) == seq /= <<>> /\ ev.o - base < Back(seq).first

\* C1: in every reachable state and for every target T >= base_offset,
\* lower_bound_pair(T) is (base_offset + r, p) for a stored entry (r, p)
\* with r <= T - base_offset and no stored entry has a relative offset
\* above r and at most T - base_offset; it is nothing exactly when no
\* stored entry has a relative offset <= T - base_offset.  With base_offset
\* 100 and entries (0,0), (1000,512), (2500,1300): lookup(1600) is
\* (1100, 512) and lookup(600) is (100, 0).
C1_LookupGreatestAtOrBelow ==
    /\ \A T \in base..(base + MaxRel + 1) :
        LET r == lower_bound_pair(positions, base, T)
            below == {k \in DOMAIN positions : positions[k].first <= T - base}
        IN IF below = {}
           THEN r = Nullopt
           ELSE \E k \in below :
                    /\ r = <<base + positions[k].first, positions[k].second>>
                    /\ \A j \in below : positions[j].first <= positions[k].first
    /\ LET ex == <<Entry(0, 0), Entry(1000, 512), Entry(2500, 1300)>>
       IN /\ lower_bound_pair(ex, 100, 1600) = <<1100, 512>>
          /\ lower_bound_pair(ex, 100, 600) = <<100, 0>>

\* a lookup between two entries returned the lower one
C1_Witness ==
    /\ last.op = "lookup"
    /\ Len(positions) >= 2
    /\ positions[1].first < last.o - base
    /\ last.o - base < positions[2].first
    /\ last.res = <<base + positions[1].first, positions[1].second>>

\* C2 as claimed: from an empty index, with track calls of non-decreasing
\* offsets only, no two stored entries have the same relative offset.
C2_Original == NoDuplicates(positions)

\* C2 as amended: from an empty index, with track calls of strictly
\* increasing offsets only, no two stored entries have the same relative
\* offset.
C2_IncreasingNoDuplicates == increasing => NoDuplicates(positions)

\* two entries recorded by track calls of increasing offsets
C2_Witness ==
    /\ increasing
    /\ last.op = "track"
    /\ Len(positions) >= 2
    /\ Back(positions).first = last.o - base

\* C3: whatever the order of the offsets of the track and truncate calls,
\* no entry has a smaller relative offset than the entry before it.
C3_EntriesSorted == Sorted(positions)

\* an out-of-order track call has just met an index of two entries
C3_Witness ==
    /\ last.op = "track"
    /\ phase = "open"
    /\ Len(positions) >= 2
    /\ positions[1].first < positions[2].first
    /\ last.o - base < positions[2].first

\* C4: a track call whose relative offset is below that of the last stored
\* entry changes none of entries, accumulated_bytes, last_seen_offset, dirty.
C4_EarlierOffsetIsNoOp ==
    [][(last'.op = "track" /\ Dropped(last', positions)) => UNCHANGED index]_vars

\* such a call, with a payload that would have reached the step, was made
C4_Witness ==
    /\ last.op = "track"
    /\ phase = "open"
    /\ Dropped(last, positions)
    /\ last.size >= step
    /\ last_seen_offset > last.o
    /\ last_seen_offset /= NoOffset

\* C5: a track call that is not dropped appends (offset - base, position)
\* exactly when accumulated_bytes + payload size >= step, and then zeroes
\* accumulated_bytes and sets dirty; otherwise it adds the payload size to
\* accumulated_bytes and leaves entries and dirty alone.  With step > 0,
\* accumulated_bytes < step after every track call.
C5_SamplingThreshold ==
    [][(last'.op = "track" /\ phase' = "open") =>
          /\ ~Dropped(last', positions) =>
                IF acc + last'.size >= step
                THEN /\ positions' = Append(positions,
                                            Entry(last'.o - base, last'.pos))
                     /\ acc' = 0
                     /\ needs_persistence'
                ELSE /\ acc' = acc + last'.size
                     /\ UNCHANGED <<positions, needs_persistence>>
          /\ step > 0 => acc' < step]_vars

\* an entry was recorded by a payload smaller than the step, on top of
\* bytes accumulated before
C5_Witness ==
    /\ last.op = "track"
    /\ phase = "open"
    /\ positions /= <<>>
    /\ Back(positions) = Entry(last.o - base, last.pos)
    /\ last.size > 0
    /\ last.size < step
    /\ acc = 0
    /\ needs_persistence

\* C6: right after truncate(X), X >= base_offset, every remaining entry has
\* a relative offset below X - base_offset, and lookup(X) returns nothing or
\* an entry whose logical offset is below X.
C6_TruncateRemovesFromTarget ==
    (last.op = "truncate" /\ phase /= "aborted") =>
        /\ \A k \in DOMAIN positions : positions[k].first < last.o - base
        /\ LET r == lower_bound_pair(positions, base, last.o)
           IN r = Nullopt \/ r[1] < last.o

\* a truncate left entries below its target, which lookup then finds
C6_Witness ==
    /\ last.op = "truncate"
    /\ phase = "open"
    /\ positions /= <<>>
    /\ tasks /= <<>>
    /\ lower_bound_pair(positions, base, last.o) /= Nullopt

\* the backing file holds exactly the in-memory entries
FileInSync == offset_index_from_buf(file) = positions

\* C7: whenever a truncate completes without I/O failure, the backing file
\* decodes to exactly the in-memory entries.  The code does not keep this:
\* flush clears the dirty flag before its file operations, so a truncate
\* that removes nothing after a failed flush completes over a stale file.
C7_Original == (last.fin = "truncate" /\ last.ok) => FileInSync

\* C8: a flush call leaves dirty false; it starts no file operation when
\* dirty was false, nor when it follows a flush directly; and between two
\* flush calls dirty turns true by a track call only (a truncate that
\* erases entries flushes them itself).
C8_IdempotentFlush ==
    [][/\ last'.op = "flush" =>
             /\ ~needs_persistence'
             /\ ~needs_persistence => UNCHANGED <<file, tasks, close_calls>>
             /\ last.fin = "flush" => UNCHANGED <<file, tasks, close_calls>>
       /\ (~needs_persistence /\ needs_persistence') => last'.op = "track"]_vars

\* a flush call on an index that is in sync with its file returned at once
C8_Witness ==
    /\ last.op = "flush"
    /\ last.fin = "flush"
    /\ phase = "open"
    /\ positions /= <<>>
    /\ file = offset_index_to_buf(positions)

\* C9: in a close of a dirty index, the encoded entries are in the file
\* when _out.close() is issued, and when the close completes successfully
\* the file decodes to the in-memory entries and dirty is false.
C9_CloseFlushesFirst ==
    [][\A t \in DOMAIN tasks :
          (tasks[t].kind = "close" /\ tasks[t].dirty0) =>
              /\ close_calls' > close_calls =>
                     file = offset_index_to_buf(positions)
              /\ (last'.fin = "close" /\ last'.ok) =>
                     /\ offset_index_from_buf(file') = positions'
                     /\ ~needs_persistence']_vars

\* the close of a dirty index has written its entries and issued _out.close()
C9_Witness ==
    \E t \in DOMAIN tasks :
        /\ tasks[t].kind = "close"
        /\ tasks[t].dirty0
        /\ tasks[t].pc = "fclose"
        /\ positions /= <<>>
        /\ close_calls = 1

\* C10 as claimed: no operation but close releases the file handle, and
\* every close that has finished, with success or with an I/O failure, has
\* released it exactly once.
C10_Original ==
    /\ phase \in {"new", "open", "aborted"} => close_calls = 0
    /\ phase = "closed" => close_calls = 1

\* ------------------------------------------------------------------ C11
\* C11 as stated: a load that finds the file empty returns false and leaves
\* the index with no entries
C11_Original ==
    [][(last'.op = "read" /\ last'.ok /\ file = <<>>)
         => (last'.res = LoadResult(FALSE) /\ positions' = <<>>)]_vars

\* C11: a load that finds the file empty returns false and leaves the
\* entries as they were (none, on a fresh index); a load that finds it not
\* empty replaces the entries by the decoded contents and returns true; no
\* step of a load changes the dirty flag, the accumulated bytes, the last
\* seen offset or the file
C11_LoadFrame ==
    [][/\ (last'.op = "read" /\ last'.ok /\ file = <<>>)
            => /\ last'.res = LoadResult(FALSE)
               /\ positions' = positions
               /\ (phase = "new" => positions' = <<>>)
       /\ (last'.op = "read" /\ last'.ok /\ file /= <<>>)
            => /\ last'.res = LoadResult(TRUE)
               /\ positions' = offset_index_from_buf(file)
       /\ (last'.op \in {"load", "size"} \/ (last'.op = "read" /\ ~last'.ok))
            => positions' = positions
       /\ last'.op \in {"load", "size", "read"}
            => UNCHANGED <<needs_persistence, acc, last_seen_offset, file>>]_vars

\* a load replaced the entries of a dirty index by those of the file and
\* left it dirty, with bytes accumulated
C11_Witness ==
    /\ last.op = "read" /\ last.ok
    /\ last.res = LoadResult(TRUE)
    /\ positions = offset_index_from_buf(file)
    /\ needs_persistence /\ acc > 0

\* ------------------------------------------------------------------ C12
\* C12: when the flush of a dirty index has succeeded the file is 8 bytes
\* for each entry, none for an empty list, and decodes to the entries; a
\* load over the file a flush left returns true and the same entries in the
\* same order, or false and no entries when the list flushed was empty
C12_RoundTrip ==
    [][/\ (last'.op = "sclose" /\ last'.ok)
            => /\ Len(file') = 8 * Len(positions')
               /\ offset_index_from_buf(file') = positions'
               /\ file' = offset_index_to_buf(positions')
       /\ (last'.op = "read" /\ last'.ok /\ file = offset_index_to_buf(positions))
            => /\ Len(file) = 8 * Len(positions)
               /\ positions' = positions
               /\ last'.res = LoadResult(positions /= <<>>)
               /\ (positions = <<>> => file = <<>>)]_vars

\* a load has just read back two entries that were tracked and flushed
C12_Witness ==
    /\ last.op = "read" /\ last.ok /\ last.res = LoadResult(TRUE)
    /\ Len(positions) = 2 /\ Len(file) = 16
    /\ file = offset_index_to_buf(positions)
    /\ positions[1].second = 512 /\ positions[2].second = 512
    /\ ~failed

\* ------------------------------------------------------------------ C13
\* C13: under single-owner use, when a flush that was started on a dirty
\* index completes without I/O failure, the file holds exactly the entries
\* the index held when the flush was started
C13_FlushWritesEntriesAtCall ==
    [][(last'.op = "sclose" /\ last'.ok)
         => \E t \in DOMAIN tasks :
              /\ tasks[t].pc = "sclose"
              /\ tasks[t].dirty0
              /\ offset_index_from_buf(file') = tasks[t].snap
              /\ file' = offset_index_to_buf(tasks[t].snap)]_vars

\* a flush call on a dirty index has completed with no failure before it:
\* the file holds the one entry that was tracked
C13_Witness ==
    /\ last.op = "sclose" /\ last.ok /\ last.fin = "flush"
    /\ ~failed
    /\ Len(positions) = 1 /\ positions[1].second = 512
    /\ offset_index_from_buf(file) = positions

\* ------------------------------------------------------------------ C14
\* C14: a track, lookup or truncate call with an offset below the base
\* offset ends in the fatal outcome and changes neither the entries, the
\* accumulated bytes, the last seen offset, the dirty flag nor the file, and
\* starts no file operation; with an offset at or above the base offset no
\* such call ends in the fatal outcome
C14_PreconditionFatal ==
    [][last'.op \in {"track", "lookup", "truncate"}
         => /\ (phase' = "aborted") <=> (last'.o < base)
            /\ (last'.o < base)
                 => UNCHANGED <<positions, acc, last_seen_offset,
                                needs_persistence, file, tasks, close_calls>>]_vars

\* a truncate below the base offset has aborted a dirty index with entries
\* and bytes accumulated
C14_Witness ==
    /\ phase = "aborted"
    /\ last.op = "truncate" /\ last.o < base
    /\ positions /= <<>> /\ needs_persistence /\ acc > 0
    /\ tasks = <<>>

\* ------------------------------------------------------------------ C15
\* the index was constructed over an empty file or has been loaded
Hydrated == phase /= "new" \/ file = <<>>

\* C15: whenever no persistence operation is outstanding and the index is
\* clean, the entries are those the file holds.  The code does not keep
\* this: a flush that fails leaves the dirty flag cleared over a file that
\* lacks the change.
C15_Original ==
    (Hydrated /\ tasks = <<>> /\ ~needs_persistence) => FileInSync

\* ------------------------------------------------------------------ C16
\* the file operations of the chain of flush
FlushSteps == {"ftruncate", "write", "sflush", "sclose"}

\* C16: when a file operation of a flush fails, the flush completes at once
\* as failed and its task is gone, so nothing is retried; the entries and the
\* file stay as the failure found them and the dirty flag stays cleared; a
\* flush called next does no file operation
C16_FailedFlushLeavesClean ==
    [][/\ (last'.op \in FlushSteps /\ ~last'.ok)
            => /\ \E t \in DOMAIN tasks :
                    /\ last'.fin = tasks[t].kind
                    /\ tasks' = RemoveAt(tasks, t)
               /\ failed'
               /\ ~needs_persistence'
               /\ UNCHANGED <<positions, file, close_calls>>
       /\ (last.op \in FlushSteps /\ ~last.ok /\ last'.op = "flush")
            => /\ tasks' = tasks
               /\ last'.fin = "flush" /\ last'.ok
               /\ UNCHANGED <<file, needs_persistence>>]_vars

\* the write of a flush has failed: the flush is over, the index is clean
\* and holds an entry, the file is empty
C16_Witness ==
    /\ last.op = "write" /\ ~last.ok /\ last.fin = "flush"
    /\ tasks = <<>> /\ ~needs_persistence
    /\ positions /= <<>> /\ file = <<>>

\* ------------------------------------------------------------------ C17
\* the operation a task waits for, in the order the chain issues them
StepRank(pc) ==
    CASE pc = "ftruncate" -> 1
      [] pc = "write" -> 2
      [] pc = "sflush" -> 3
      [] pc = "sclose" -> 4
      [] pc = "fclose" -> 5
      [] OTHER -> 0

\* C17: a flush of a dirty index clears the dirty flag before any file
\* operation, then truncates the file to zero, then writes the whole
\* encoding of the entries, then flushes the stream durably; the write is
\* issued only when the truncate has completed, and the flush completes
\* with success only after the durable flush
C17_FlushStepOrder ==
    [][/\ (last'.op \in {"flush", "truncate", "close"} /\ Len(tasks') > Len(tasks)
           /\ tasks'[Len(tasks')].pc /= "fclose")
            => /\ tasks'[Len(tasks')].pc = "ftruncate"
               /\ ~needs_persistence'
               /\ file' = file
       /\ (last'.op \in FlushSteps /\ Len(tasks') = Len(tasks))
            => \A t \in DOMAIN tasks :
                 tasks'[t].pc /= tasks[t].pc
                   => /\ StepRank(tasks'[t].pc) = StepRank(tasks[t].pc) + 1
                      /\ last'.op = tasks[t].pc /\ last'.ok
       /\ (last'.op = "ftruncate" /\ last'.ok)
            => /\ file' = <<>>
               /\ \E t \in DOMAIN tasks :
                    /\ tasks[t].pc = "ftruncate" /\ tasks'[t].pc = "write"
                    /\ tasks'[t].buf = offset_index_to_buf(positions)
       /\ (last'.op = "write" /\ last'.ok)
            => /\ file = <<>>
               /\ file' = offset_index_to_buf(positions)
       /\ (last'.op \in FlushSteps /\ last'.ok /\ Len(tasks') < Len(tasks))
            => last'.op = "sclose"
       /\ (last'.op = "sclose" /\ last'.ok)
            => \E t \in DOMAIN tasks : tasks[t].pc = "sclose"
       /\ \A t \in DOMAIN tasks' :
            (tasks'[t].pc = "sclose" /\ (t \notin DOMAIN tasks \/ tasks[t].pc /= "sclose"))
              => (t \in DOMAIN tasks /\ tasks[t].pc = "sflush" /\ last'.op = "sflush")]_vars

\* the durable flush of the stream has just completed for a flush that wrote
\* two entries: the flush itself is still outstanding
C17_Witness ==
    /\ last.op = "sflush" /\ last.ok
    /\ Len(tasks) = 1 /\ tasks[1].pc = "sclose" /\ tasks[1].kind = "flush"
    /\ Len(positions) = 2 /\ file = offset_index_to_buf(positions)
    /\ ~needs_persistence

\* ------------------------------------------------------------------ C18
\* C18 as stated: the last seen offset is the greatest of the offset of the
\* most recent truncate and of the offsets passed to track since (by calls
\* that were not ignored as earlier than the last entry)
C18_Original == last_seen_offset = seen_max

\* C18: the last seen offset is the offset of the most recent call among the
\* truncates and the track calls that were not dropped as earlier than the
\* last entry; it is never above the greatest offset named since the last
\* truncate, and no other operation changes it.  What a lookup returns is
\* fixed by the entries, the base offset and the target alone.
C18_LastSeenIsLastCall ==
    [][/\ last'.op = "track"
            => last_seen_offset' = IF Dropped(last', positions)
                                   THEN last_seen_offset ELSE last'.o
       /\ last'.op = "truncate" => last_seen_offset' = last'.o
       /\ last'.op \notin {"track", "truncate"} => UNCHANGED last_seen_offset
       /\ last_seen_offset' <= seen_max'
       /\ last'.op = "lookup"
            => LET i == last'.o - base
                   below == {k \in DOMAIN positions : positions[k].first <= i}
               IN IF below = {}
                  THEN last'.res = Nullopt
                  ELSE \E k \in below :
                         /\ last'.res = <<base + positions[k].first, positions[k].second>>
                         /\ \A j \in below : positions[j].first <= positions[k].first]_vars

\* a track call that was not dropped has set the last seen offset below an
\* offset tracked before it
C18_Witness ==
    /\ last.op = "track"
    /\ last_seen_offset = last.o
    /\ last_seen_offset < seen_max

\* ------------------------------------------------------------------ C19
\* C19: a truncate keeps exactly the entries below the target, in their
\* order and with their values, and leaves the accumulated bytes alone; it
\* marks the index dirty only when it removed an entry, so it starts a
\* flush exactly when it removed an entry or the index was dirty already
C19_TruncateFrame ==
    [][(last'.op = "truncate" /\ phase' /= "aborted")
         => /\ positions' = SelectSeq(positions,
                                      LAMBDA e : e.first < last'.o - base)
            /\ \E n \in 0..Len(positions) : positions' = SubSeq(positions, 1, n)
            /\ acc' = acc
            /\ (Len(tasks') > Len(tasks))
                 <=> (needs_persistence \/ Len(positions') < Len(positions))
            /\ ~needs_persistence'
            /\ (positions' = positions /\ ~needs_persistence)
                 => (tasks' = tasks /\ last'.fin = "truncate")]_vars

\* a truncate has removed the second of two entries of an index that had
\* bytes accumulated, and started a flush; the bytes are still counted
C19_Witness ==
    /\ last.op = "truncate"
    /\ Len(positions) = 1 /\ last.o - base > positions[1].first
    /\ acc > 0
    /\ Len(tasks) = 1 /\ tasks[1].kind = "truncate" /\ tasks[1].pc = "ftruncate"
    /\ Len(offset_index_from_buf(file)) = 2

\* ------------------------------------------------------------------ C20
\* C20 as stated: with track and truncate calls run while a flush is
\* outstanding, once every outstanding flush has completed with success the
\* index is dirty or the file decodes to its entries
C20_Original ==
    (Hydrated /\ tasks = <<>> /\ ~failed) => (needs_persistence \/ FileInSync)

\* C20: a track call that changes the entries while a flush is outstanding
\* sets the dirty flag, and no file operation of a flush clears it; so, as
\* long as no truncate has run while a flush was outstanding, once the
\* outstanding flush has completed with success the index is dirty or the
\* file decodes to its entries
C20_ConcurrentTrackStaysDirty ==
    [][/\ (last'.op = "track" /\ FlushOutstanding /\ positions' /= positions)
            => needs_persistence'
       /\ last'.op \in FlushSteps => needs_persistence' = needs_persistence
       /\ (Hydrated' /\ tasks' = <<>> /\ ~failed' /\ ~raced')
            => (needs_persistence' \/ FileInSync')]_vars

\* a flush has completed with success after a track call added an entry
\* while it was outstanding: the file lacks the entry and the index is dirty
C20_Witness ==
    /\ last.op = "sclose" /\ last.ok /\ last.fin = "flush"
    /\ tasks = <<>> /\ ~raced /\ ~failed
    /\ needs_persistence
    /\ Len(positions) = 2
    /\ offset_index_from_buf(file) = SubSeq(positions, 1, 1)

====
